---- MODULE Spec2Model ----
(***************************************************************************)
(* A model of hangman-rs (src/src/main.rs): the GameManager session loop   *)
(* (start_game, choose_word, init_word, play, check_letter, flush) and the *)
(* arguments it hands to generate_frame.                                    *)
(*                                                                         *)
(* A char is a one-character string, a String a sequence of chars.         *)
(* already_guessed is a Vec<char> that the program only pushes to,         *)
(* searches (contains) and clears; the order of its elements is never      *)
(* read, so it is kept as the bag of its elements (multiplicity kept).     *)
(***************************************************************************)
EXTENDS Integers, Sequences, FiniteSets, Bags, TLC

VARIABLES
    pc,               \* where the session is waiting (see PcValues)
    word,             \* GameManager.word: sequence of [letter, status]
    already_guessed,  \* GameManager.already_guessed, as a bag of chars
    steps_left,       \* GameManager.steps_left
    input,            \* the line last read from standard input
    msg,              \* the message the last handler printed ("" if none)
    found,            \* what the last call of check_letter returned
    shown             \* <<>> or <<[steps, word]>>: the arguments of the
                      \* latest generate_frame call of this round

vars == <<pc, word, already_guessed, steps_left, input, msg, found, shown>>

(***************************************************************************)
(* Program constants                                                       *)
(***************************************************************************)
MIN_WORD_LENGTH == 3
MAX_WORD_LENGTH == 25
STEPS == 7
\* the inner width of the word line in generate_frame
WordLineWidth == 25
\* the largest step count that has a frame of its own in generate_frame
LastFrame == 7

(***************************************************************************)
(* Bounds of the model                                                     *)
(***************************************************************************)
\* the longest line typed at "Enter a word: " that is enumerated in full
MaxTyped == 3

(***************************************************************************)
(* Characters                                                              *)
(***************************************************************************)
AsciiLower == {"a", "b", "t", "u", "v", "w", "x", "y", "z"}
AsciiUpper == {"A", "B", "Z"}
\* two-byte letters (U+00E9, U+00C9)
WideLower == {"é"}
WideUpper == {"É"}
Whitespace == {" "}
Chars == AsciiLower \cup AsciiUpper \cup WideLower \cup WideUpper
             \cup Whitespace \cup {"1", "_"}

\* char::to_lowercase().next().unwrap(): the Unicode lower case
ToLowercase(c) ==
    CASE c = "A" -> "a"
      [] c = "B" -> "b"
      [] c = "Z" -> "z"
      [] c = "É" -> "é"
      [] OTHER -> c

\* char::to_ascii_lowercase(): only A-Z are mapped
ToAsciiLowercase(c) ==
    CASE c = "A" -> "a"
      [] c = "B" -> "b"
      [] c = "Z" -> "z"
      [] OTHER -> c

\* char::is_alphabetic()
IsAlphabetic(c) == c \in AsciiLower \cup AsciiUpper \cup WideLower \cup WideUpper

\* c.to_string().len(): the number of bytes of the char in UTF-8
Utf8Len(c) == IF c \in WideLower \cup WideUpper THEN 2 ELSE 1

\* str::len(): the number of bytes of the string
RECURSIVE ByteLen(_)
ByteLen(s) == IF s = <<>> THEN 0 ELSE Utf8Len(Head(s)) + ByteLen(Tail(s))

RECURSIVE TrimStart(_)
TrimStart(s) ==
    IF s # <<>> /\ Head(s) \in Whitespace THEN TrimStart(Tail(s)) ELSE s

RECURSIVE TrimEnd(_)
TrimEnd(s) ==
    IF s # <<>> /\ s[Len(s)] \in Whitespace
    THEN TrimEnd(SubSeq(s, 1, Len(s) - 1))
    ELSE s

\* str::trim()
Trim(s) == TrimEnd(TrimStart(s))

\* str::to_lowercase()
StrToLowercase(s) == [i \in 1..Len(s) |-> ToLowercase(s[i])]

(***************************************************************************)
(* Inputs                                                                  *)
(***************************************************************************)
Repeat(c, n) == [i \in 1..n |-> c]

RECURSIVE SeqsUpTo(_, _)
SeqsUpTo(S, n) ==
    IF n = 0 THEN {<<>>}
    ELSE LET shorter == SeqsUpTo(S, n - 1)
         IN  shorter \cup {Append(s, c) : s \in {t \in shorter : Len(t) = n - 1}, c \in S}

\* the lines of dictionary.txt: the file is not validated when it is read
Dictionary ==
    { <<"a", "b">>,
      <<"A", "b", "b", "a">>,
      <<"a", " ", "b">>,
      <<"a", "_", "b">>,
      <<"É", "a", "1">>,
      <<>>,
      Repeat("é", 13),
      Repeat("a", MAX_WORD_LENGTH + 1) }

\* answers to the two y/n prompts
YesNoLines ==
    { <<"y">>, <<"Y">>, <<" ", "y", " ">>, <<"n">>, <<"N">>, <<>>, <<" ">>,
      <<"x">>, <<"y", "y">>, <<"1">> }

\* lines typed at "Enter a word: "
TypedChars == {"a", " ", "1"}
WordLines ==
    SeqsUpTo(TypedChars, MaxTyped)
        \cup { <<"a", "b", "a">>,
               <<"A", "b", "b">>,
               <<"a", "é", "b">>,
               <<"é", "é">>,
               <<" ", "a", "b", "a", " ">>,
               Repeat("a", MAX_WORD_LENGTH),
               Repeat("a", MAX_WORD_LENGTH + 1) }

\* lines typed at "Enter a letter: "
GuessLines ==
    { <<c>> : c \in AsciiLower \cup {"A", "Z", "1", "é"} }
        \cup { <<>>, <<" ">>, <<" ", "a", " ">>, <<"a", "b">> }

(***************************************************************************)
(* Messages                                                                *)
(***************************************************************************)
MsgNone == ""
MsgYOrN == "Please enter y or n"
MsgLength == "Word must be between 3 and 25 characters long"
MsgSpecial == "Word must not contain special chars or symbols."
MsgAlready == "You already guessed this letter"
MsgOneLetter == "Please enter only one letter."
MsgWon == "You won!"
MsgLost == "You lost!"
MsgGoodbye == "Goodbye!"

PcValues == {"choose", "enter", "play", "won", "lost", "done", "crashed"}

(***************************************************************************)
(* GameManager                                                             *)
(***************************************************************************)
\* init_word: one Letter per char, spaces already revealed
InitWord(w) == [i \in 1..Len(w) |-> [letter |-> w[i], status |-> (w[i] = " ")]]

\* print_word
PrintWord(wd, end) ==
    IF end
    THEN [i \in 1..Len(wd) |-> wd[i].letter]
    ELSE [i \in 1..Len(wd) |-> IF wd[i].status THEN wd[i].letter ELSE "_"]

\* Vec::push and Vec::contains on already_guessed
\* (faulty variant of Push: the element is dropped)
PushNothing(h, c) == h
Push(h, c) == h (+) SetToBag({c})
\* (faulty variant of Contains: nothing is ever found in the history)
ContainsNothing(h, c) == FALSE
Contains(h, c) == BagIn(c, h)

\* play: already_guessed.contains(&letter.to_lowercase().next().unwrap())
\* (faulty variant of AlreadyGuessed: the letter is looked up as typed)
AlreadyGuessedCaseSensitive(h, letter) == Contains(h, letter)
AlreadyGuessed(h, letter) == Contains(h, ToLowercase(letter))

\* the test of one position in the loop of check_letter
\* (faulty variant of LetterMatches: the comparison keeps the case)
LetterMatchesExactly(l, letter) == l = letter
LetterMatches(l, letter) == ToLowercase(l) = ToAsciiLowercase(letter)

\* the loop of check_letter from position i on
RECURSIVE CheckLetterFrom(_, _, _, _, _)
CheckLetterFrom(i, wd, h, f, letter) ==
    IF i > Len(wd) THEN [word |-> wd, guessed |-> h, found |-> f]
    ELSE IF LetterMatches(wd[i].letter, letter)
         THEN CheckLetterFrom(i + 1, [wd EXCEPT ![i].status = TRUE],
                              Push(h, ToLowercase(letter)), TRUE, letter)
         ELSE CheckLetterFrom(i + 1, wd, h, f, letter)

\* check_letter: the word and history it leaves, and what it returns
\* (faulty variant of CheckLetter: every status is assigned the result of
\* this comparison, so earlier reveals are lost)
CheckLetterForgets(wd, h, letter) ==
    CheckLetterFrom(1, [i \in 1..Len(wd) |-> [wd[i] EXCEPT !.status = FALSE]],
                    h, FALSE, letter)
CheckLetter(wd, h, letter) == CheckLetterFrom(1, wd, h, FALSE, letter)

\* check_win
\* (faulty variant of CheckWin: any() in place of all())
CheckWinAny(wd) == \E i \in 1..Len(wd) : wd[i].status
CheckWin(wd) == \A i \in 1..Len(wd) : wd[i].status

\* check_lose
\* (faulty variant of CheckLose: the round is lost one miss too late)
CheckLoseBelowZero(s) == s < 0
\* (faulty variant of CheckLose: the round is lost one miss too early)
CheckLoseAtOne(s) == s <= 1
\* (faulty variant of CheckLose: the round is never lost)
CheckLoseNever(s) == FALSE
CheckLose(s) == s = 0

(***************************************************************************)
(* generate_frame                                                          *)
(***************************************************************************)
\* frame_index
\* (faulty variant of FrameIndex: the step count itself is the index)
FrameIndexIsSteps(steps) == IF steps > LastFrame THEN 0 ELSE steps
FrameIndex(steps) == IF steps > LastFrame THEN 0 ELSE LastFrame - steps

\* the two paddings of the word line
LeftPad(len) == (WordLineWidth - len) \div 2
RightPad(len) == ((WordLineWidth - len) \div 2) + ((WordLineWidth - len) % 2)

\* word_frame: both repeat counts come from word.len(), the length in bytes
WordFrame(w) ==
    <<"#", " ">> \o Repeat(" ", LeftPad(ByteLen(w))) \o w
        \o Repeat(" ", RightPad(ByteLen(w))) \o <<" ", "#">>

\* 25 - word.len() is computed in usize: with a longer word it panics (or
\* wraps to a repeat count no allocation can hold), and the process ends
FrameOk(w) == ByteLen(w) <= WordLineWidth

\* print_status: the call of generate_frame and the position it leaves
Render(end, wd, s, next) ==
    LET w == PrintWord(wd, end)
    IN  /\ shown' = <<[steps |-> s, word |-> w]>>
        /\ pc' = IF FrameOk(w) THEN next ELSE "crashed"

(***************************************************************************)
(* read_frames_from_file                                                   *)
(***************************************************************************)
VARIABLES
    file,           \* the lines of the frame asset, in file order
    line_no,        \* the number of lines the loop has consumed
    frames,         \* the local frames
    current_frame,  \* the local current_frame
    rd              \* "idle" (no call), "reading" (in the loop), "done"

fvars == <<file, line_no, frames, current_frame, rd>>

\* the lines a frame asset is made of here: delimiters "-" and "--", and
\* the content lines "|", " -" and the empty line
FileLines == { <<"-">>, <<"-", "-">>, <<"|">>, <<" ", "-">>, <<>> }

\* the longest frame asset that is enumerated
MaxLines == 4

RECURSIVE FilesUpTo(_)
FilesUpTo(n) ==
    IF n = 0 THEN {<<>>}
    ELSE LET shorter == FilesUpTo(n - 1)
         IN  shorter \cup {Append(f, l) : f \in {g \in shorter : Len(g) = n - 1},
                                          l \in FileLines}

\* line.starts_with('-')
StartsWithDash(line) == line # <<>> /\ Head(line) = "-"

\* if !current_frame.is_empty() { frames.push(current_frame) }
\* (faulty variant of PushFrame: the frame is pushed even when it is empty)
PushFrameAlways(fs, cur) == Append(fs, cur)
PushFrame(fs, cur) == IF cur # <<>> THEN Append(fs, cur) ELSE fs

\* no call of read_frames_from_file is under way
FramesIdle ==
    /\ file = <<>>
    /\ line_no = 0
    /\ frames = <<>>
    /\ current_frame = <<>>
    /\ rd = "idle"

\* the call has opened the file and made its two empty vectors
FramesInit ==
    /\ file \in FilesUpTo(MaxLines)
    /\ line_no = 0
    /\ frames = <<>>
    /\ current_frame = <<>>
    /\ rd = "reading"

\* one turn of the loop over the lines
ReadLine ==
    /\ rd = "reading"
    /\ line_no < Len(file)
    /\ line_no' = line_no + 1
    /\ LET line == file[line_no + 1]
       IN  IF StartsWithDash(line)
           THEN /\ frames' = PushFrame(frames, current_frame)
                /\ current_frame' = <<>>
           ELSE /\ current_frame' = Append(current_frame, line)
                /\ UNCHANGED frames
    /\ UNCHANGED <<file, rd>>
    /\ UNCHANGED vars

\* after the loop: the last frame, and Ok(frames)
EndOfFile ==
    /\ rd = "reading"
    /\ line_no = Len(file)
    /\ frames' = PushFrame(frames, current_frame)
    /\ rd' = "done"
    /\ UNCHANGED <<file, line_no, current_frame>>
    /\ UNCHANGED vars

(***************************************************************************)
(* The session                                                             *)
(***************************************************************************)
\* GameManager::new() and the first flush() of start_game
SessionInit ==
    /\ pc = "choose"
    /\ word = <<>>
    /\ already_guessed = EmptyBag
    /\ steps_left = STEPS
    /\ input = <<>>
    /\ msg = MsgNone
    /\ found = FALSE
    /\ shown = <<>>

Init == SessionInit /\ FramesIdle

\* flush
\* (faulty variant of Flush: already_guessed is not cleared)
FlushKeepsGuesses ==
    /\ steps_left' = STEPS
    /\ word' = <<>>
    /\ UNCHANGED already_guessed
Flush ==
    /\ steps_left' = STEPS
    /\ word' = <<>>
    /\ already_guessed' = EmptyBag

\* start_game: init_word(&word), then play() up to its first prompt
StartRound(w) ==
    /\ word' = InitWord(w)
    /\ Render(FALSE, InitWord(w), steps_left, "play")
    /\ msg' = MsgNone
    /\ found' = FALSE
    /\ UNCHANGED <<already_guessed, steps_left>>

\* choose_word: the arms "y" | "" and "n" of the match
IsYes(answer) == answer \in {<<"y">>, <<>>}
\* (faulty variant of IsNo: every other answer is taken as "n")
IsNoOrAnythingElse(answer) == TRUE
IsNo(answer) == answer = <<"n">>

\* choose_word: the answer to "Do you want to use the default dictionary?"
ChooseWord(line) ==
    /\ pc = "choose"
    /\ UNCHANGED fvars
    /\ input' = line
    /\ LET answer == StrToLowercase(Trim(line))
       IN  CASE IsYes(answer) ->
                    \E w \in Dictionary : StartRound(w)
             [] IsNo(answer) ->
                    /\ pc' = "enter"
                    /\ msg' = MsgNone
                    /\ UNCHANGED <<word, already_guessed, steps_left, found, shown>>
             [] OTHER ->
                    /\ pc' = "choose"
                    /\ msg' = MsgYOrN
                    /\ UNCHANGED <<word, already_guessed, steps_left, found, shown>>

\* is_valid after the loop over word.chars()
\* (faulty variant of IsValid: the one-byte test is left out)
IsValidAnyLetter(w) == \A i \in 1..Len(w) : IsAlphabetic(w[i])
IsValid(w) == \A i \in 1..Len(w) : IsAlphabetic(w[i]) /\ Utf8Len(w[i]) = 1

\* choose_word: one turn of the "Enter a word: " loop
EnterWord(line) ==
    /\ pc = "enter"
    /\ UNCHANGED fvars
    /\ input' = line
    /\ LET w == Trim(line)
       IN  IF ByteLen(w) < MIN_WORD_LENGTH \/ ByteLen(w) > MAX_WORD_LENGTH
           THEN /\ msg' = MsgLength
                /\ UNCHANGED <<pc, word, already_guessed, steps_left, found, shown>>
           ELSE IF ~IsValid(w)
           THEN /\ msg' = MsgSpecial
                /\ UNCHANGED <<pc, word, already_guessed, steps_left, found, shown>>
           ELSE StartRound(w)

\* play: the guess is a letter if it is alphabetic and one byte long
IsLetter(c) == IsAlphabetic(c) /\ Utf8Len(c) = 1

\* play: one turn of the loop, from the answer to "Enter a letter: " to the
\* next prompt (or to the end of the round)
Guess(line) ==
    /\ pc = "play"
    /\ UNCHANGED fvars
    /\ input' = line
    /\ LET answer == Trim(line)
       IN  IF answer = <<>>
           THEN \* chars().next().unwrap() on an empty answer panics
                /\ pc' = "crashed"
                /\ msg' = MsgNone
                /\ UNCHANGED <<word, already_guessed, steps_left, found, shown>>
           ELSE
           LET letter == Head(answer)
           IN  IF ~IsLetter(letter)
               THEN /\ msg' = MsgOneLetter
                    /\ found' = FALSE
                    /\ Render(FALSE, word, steps_left, "play")
                    /\ UNCHANGED <<word, already_guessed, steps_left>>
               ELSE IF AlreadyGuessed(already_guessed, letter)
               THEN /\ msg' = MsgAlready
                    /\ found' = FALSE
                    /\ Render(FALSE, word, steps_left, "play")
                    /\ UNCHANGED <<word, already_guessed, steps_left>>
               ELSE
               LET r == CheckLetter(word, already_guessed, letter)
                   h == IF r.found THEN r.guessed
                        ELSE Push(r.guessed, ToLowercase(letter))
                   s == IF r.found THEN steps_left ELSE steps_left - 1
               IN  /\ word' = r.word
                   /\ already_guessed' = h
                   /\ steps_left' = s
                   /\ found' = r.found
                   /\ IF CheckWin(r.word)
                      THEN /\ Render(TRUE, r.word, s, "won")
                           /\ msg' = IF FrameOk(PrintWord(r.word, TRUE))
                                     THEN MsgWon ELSE MsgNone
                      ELSE IF CheckLose(s)
                      THEN /\ Render(TRUE, r.word, s, "lost")
                           /\ msg' = IF FrameOk(PrintWord(r.word, TRUE))
                                     THEN MsgLost ELSE MsgNone
                      ELSE /\ Render(FALSE, r.word, s, "play")
                           /\ msg' = MsgNone

\* start_game: the answer to "Do you want to play again?"; "y" goes round
\* the loop to flush() and the next choose_word
PlayAgain(line) ==
    /\ pc \in {"won", "lost"}
    /\ UNCHANGED fvars
    /\ input' = line
    /\ found' = FALSE
    /\ IF StrToLowercase(Trim(line)) # <<"y">>
       THEN /\ pc' = "done"
            /\ msg' = MsgGoodbye
            /\ UNCHANGED <<word, already_guessed, steps_left, shown>>
       ELSE /\ pc' = "choose"
            /\ msg' = MsgNone
            /\ shown' = <<>>
            /\ Flush

Next ==
    \/ \E line \in YesNoLines : ChooseWord(line)
    \/ \E line \in WordLines : EnterWord(line)
    \/ \E line \in GuessLines : Guess(line)
    \/ \E line \in YesNoLines : PlayAgain(line)

allvars == <<vars, fvars>>

\* the session; no call of read_frames_from_file is followed in it
Spec == Init /\ [][Next]_allvars

\* the session with lines arriving on stdin for as long as it reads them:
\* the process does not stay at a prompt forever
LiveSpec == Spec /\ WF_allvars(Next)

\* one call of read_frames_from_file on a frame asset, the session at rest
FramesStart == SessionInit /\ FramesInit
FramesNext == ReadLine \/ EndOfFile
FramesSpec == FramesStart /\ [][FramesNext]_allvars

TypeOK ==
    /\ pc \in PcValues
    /\ steps_left \in Int
    /\ found \in BOOLEAN
    /\ Len(shown) <= 1

(***************************************************************************)
(* Properties                                                              *)
(***************************************************************************)
\* the answer play() takes from the line, and the char it examines
AnswerOf(line) == Trim(line)
LetterOf(line) == Head(Trim(line))

\* the line holds a guess that play() accepts: its first char is a
\* one-byte letter
Accepted(line) == AnswerOf(line) # <<>> /\ IsLetter(LetterOf(line))

\* two chars are the same letter, case-insensitively
SameLetter(a, b) == ToLowercase(a) = ToLowercase(b)

\* the positions of the word that hold the letter c, case-insensitively
Positions(wd, c) == {i \in 1..Len(wd) : SameLetter(wd[i].letter, c)}

\* the lower-case form of c is in the guess history
InHistory(h, c) == \E g \in BagToSet(h) : g = ToLowercase(c)

\* this step reads an accepted guess of a letter not yet in the history
NewGuess ==
    /\ pc = "play"
    /\ Accepted(input')
    /\ ~InHistory(already_guessed, LetterOf(input'))

\* this step reads an accepted guess of a letter already in the history
RepeatedGuess ==
    /\ pc = "play"
    /\ Accepted(input')
    /\ InHistory(already_guessed, LetterOf(input'))

\* C1: in every reachable state steps_left is an integer in 0..7, and it is
\* 7 until the first guess of a round (at the prompts and at the start of
\* play).
C1_StepsInRange ==
    /\ steps_left \in 0..7
    /\ pc \in {"choose", "enter"} => steps_left = 7
    /\ (pc = "play" /\ already_guessed = EmptyBag) => steps_left = 7

\* C1 witness: a round lost with the counter at its floor
C1_Witness == pc = "lost" /\ steps_left = 0

\* C2: an accepted guess of a letter not yet in the history takes one step
\* if the letter is at no position of the word, takes none if it is at some
\* position, and in both cases leaves its lower-case form in the history.
C2_NewGuessEffect ==
    [][NewGuess =>
        LET at == Positions(word, LetterOf(input'))
        IN  /\ at = {} => steps_left' = steps_left - 1
            /\ at # {} => steps_left' = steps_left
            /\ InHistory(already_guessed', LetterOf(input'))]_vars

\* C2 witness: a miss in upper case has taken a step and is in the history
C2_Witness ==
    /\ input = <<"Z">>
    /\ ~found
    /\ msg = MsgNone
    /\ pc = "play"
    /\ steps_left = 5
    /\ BagIn("z", already_guessed)

\* C3: a guess of a letter already in the history, in either case, changes
\* neither steps_left nor any reveal flag nor the history, and the round
\* stays in progress.
C3_RepeatedGuessNoPenalty ==
    [][RepeatedGuess =>
        /\ pc' = "play"
        /\ UNCHANGED <<steps_left, word, already_guessed>>]_vars

\* C3 witness: "Z" typed again after the miss "z", and "A" after the hit "a"
C3_Witness ==
    /\ msg = MsgAlready
    /\ input \in {<<"Z">>, <<"A">>}
    /\ BagIn("z", already_guessed)
    /\ BagIn("a", already_guessed)
    /\ steps_left = 6

\* C4: the guess history holds each letter at most once.
C4_HistoryIsSet ==
    \A c \in BagToSet(already_guessed) : CopiesIn(c, already_guessed) <= 1

\* C5: check_letter returns true iff some position of the word holds the
\* guessed letter case-insensitively; afterwards exactly those positions
\* have become revealed and every other position is as it was.
C5_CheckLetterEffect ==
    [][NewGuess =>
        /\ found' = (\E i \in 1..Len(word) : SameLetter(word[i].letter, LetterOf(input')))
        /\ PrintWord(word', TRUE) = PrintWord(word, TRUE)
        /\ \A i \in 1..Len(word) :
              word'[i].status =
                  (word[i].status \/ SameLetter(word[i].letter, LetterOf(input')))]_vars

\* C5 witness: a lower-case guess has revealed an upper-case position and
\* left another position hidden
C5_Witness ==
    /\ found
    /\ input = <<"a">>
    /\ \E i \in 1..Len(word) : word[i].letter = "A" /\ word[i].status
    /\ \E i \in 1..Len(word) : ~word[i].status

\* the answer is exactly one alphabetic character
OneLetter(answer) == Len(answer) = 1 /\ IsAlphabetic(answer[1])

\* every position of the word is revealed
AllRevealed(wd) == \A i \in 1..Len(wd) : wd[i].status

\* the word with every position shown
FullWord(wd) == [i \in 1..Len(wd) |-> wd[i].letter]

\* C6: a guess that is not exactly one alphabetic character (more than one
\* character, a non-alphabetic one, the empty line) is rejected: steps_left,
\* the reveal flags and the history are unchanged and the round stays in
\* progress.
C6_InvalidGuessRejected ==
    [][(pc = "play" /\ ~OneLetter(AnswerOf(input'))) =>
        /\ pc' = "play"
        /\ UNCHANGED <<steps_left, word, already_guessed>>]_vars

\* C7: after each evaluated guess the round is won if every position is
\* revealed, otherwise lost if steps_left is 0, otherwise still in progress;
\* the round leaves play only by one of these two transitions, and the last
\* frame then shows the whole word.
C7_RoundTransitions ==
    [][pc = "play" =>
        /\ NewGuess =>
              pc' = IF AllRevealed(word') THEN "won"
                    ELSE IF steps_left' = 0 THEN "lost"
                    ELSE "play"
        /\ pc' # "play" =>
              /\ NewGuess
              /\ pc' \in {"won", "lost"}
              /\ shown' = <<[steps |-> steps_left', word |-> FullWord(word')]>>]_vars

\* the state flush() leaves
Flushed == steps_left = 7 /\ word = <<>> /\ already_guessed = EmptyBag

\* C8: at the replay prompt the answer "y" (trimmed, lower-cased) leads back
\* to the word choice with steps_left = 7, no word and no history, and every
\* other answer ends the session; the state stays so at the word prompts,
\* and every round starts play with steps_left = 7, an empty history and
\* the letters of the new word only.
C8_Replay ==
    /\ [](pc \in {"choose", "enter"} => Flushed)
    /\ [][(pc \in {"won", "lost"}) =>
            (IF StrToLowercase(Trim(input')) = <<"y">>
             THEN pc' = "choose" /\ Flushed'
             ELSE pc' = "done")]_vars
    /\ [][(pc \in {"choose", "enter"} /\ pc' \notin {"choose", "enter"}) =>
            /\ steps_left' = 7
            /\ already_guessed' = EmptyBag
            /\ FullWord(word') \in
                  (IF pc = "choose" THEN Dictionary ELSE {Trim(input')})
            /\ \A i \in 1..Len(word') :
                  word'[i].status = (word'[i].letter = " ")]_vars

\* C8 witness: back at the word choice after the answer "Y" to the replay
\* prompt of a lost round
C8_Witness == pc = "choose" /\ input = <<"Y">> /\ Flushed

\* C9 (as claimed): at the word-source prompt every answer other than y and
\* n (trimmed, lower-cased) is asked again, and no word source is selected.
C9_UnrecognizedReprompts ==
    [][(pc = "choose" /\ StrToLowercase(Trim(input')) \notin {<<"y">>, <<"n">>}) =>
        pc' = "choose"]_vars

\* C9 (amended): at the word-source prompt every answer other than y, n and
\* the empty answer (trimmed, lower-cased) is asked again with the session
\* unchanged, and no word source is selected; the empty answer selects the
\* dictionary, as y does.
C9_NonEmptyUnrecognizedReprompts ==
    [][pc = "choose" =>
        /\ StrToLowercase(Trim(input')) \notin {<<"y">>, <<"n">>, <<>>} =>
              /\ pc' = "choose"
              /\ msg' = MsgYOrN
              /\ UNCHANGED <<word, already_guessed, steps_left, shown>>
        /\ StrToLowercase(Trim(input')) = <<>> =>
              FullWord(word') \in Dictionary /\ pc' \in {"play", "crashed"}]_vars

\* C9 witness: the prompt repeated after the answer "yy"
C9_Witness == pc = "choose" /\ msg = MsgYOrN /\ input = <<"y", "y">>

\* C10: every masked word handed to generate_frame has a length in 3..25.
C10_MaskedWordLength ==
    \A i \in 1..Len(shown) : ByteLen(shown[i].word) \in 3..25

\* a word of 3 to 25 characters, each a single-width (one-byte) letter
AcceptableWord(w) ==
    /\ Len(w) \in 3..25
    /\ \A i \in 1..Len(w) : w[i] \in AsciiLower \cup AsciiUpper

\* C11: a typed word is accepted as the secret word iff, trimmed, it has 3
\* to 25 characters, all of them single-width letters; then the round
\* starts with exactly that word; any other entry is rejected, the prompt
\* repeats and no round starts.
C11_ManualWordValidation ==
    [][pc = "enter" =>
        IF AcceptableWord(Trim(input'))
        THEN /\ pc' = "play"
             /\ FullWord(word') = Trim(input')
        ELSE /\ pc' = "enter"
             /\ msg' \in {MsgLength, MsgSpecial}
             /\ UNCHANGED <<word, already_guessed, steps_left, shown>>]_vars

\* C11 witness: a word of 25 letters has been accepted and play has begun
C11_Witness ==
    /\ pc = "play"
    /\ input = Repeat("a", 25)
    /\ FullWord(word) = Repeat("a", 25)
    /\ already_guessed = EmptyBag

\* the chars of a string
CharsOf(w) == {w[i] : i \in 1..Len(w)}

\* C12: check_win is true iff the masked word (print_word(false)) holds no
\* '_', in every state of a round, also for the words of the dictionary.
C12_WonIffNoBlank ==
    pc \in {"play", "won", "lost"} =>
        (CheckWin(word) <=> "_" \notin CharsOf(PrintWord(word, FALSE)))

\* C12 witness: a dictionary word with a literal '_' whose letters are all
\* revealed: it is not won and its masked form still holds a '_'
C12_Witness ==
    /\ pc = "play"
    /\ FullWord(word) = <<"a", "_", "b">>
    /\ word[1].status /\ word[3].status

\* C13: within a round the letters of the word never change, the spaces
\* are revealed from the start, and no step (hit, miss, repeated guess,
\* rejected input, render) hides a revealed position.
C13_RevealIsMonotone ==
    /\ [](pc = "play" =>
            \A i \in 1..Len(word) : word[i].letter = " " => word[i].status)
    /\ [][pc = "play" =>
            /\ FullWord(word') = FullWord(word)
            /\ \A i \in 1..Len(word) : word[i].status => word'[i].status]_vars

\* C13 witness: in a word with a space, a second letter has been revealed
\* and the first is still shown
C13_Witness ==
    /\ FullWord(word) = <<"a", " ", "b">>
    /\ input = <<"b">>
    /\ found
    /\ AllRevealed(word)

\* this step evaluates a guess that is at no position of the word
MissStep == NewGuess /\ Positions(word, LetterOf(input')) = {}

\* C14: the frame index is 7 - steps for steps in 0..7 and 0 for larger
\* steps; in every render of a round it lies in 0..7, it is 0 at the start
\* of the round and each miss advances it by exactly one.
C14_FrameIndex ==
    /\ [](/\ \A s \in 0..7 : FrameIndex(s) = 7 - s
          /\ \A s \in 8..16 : FrameIndex(s) = 0)
    /\ [](\A k \in 1..Len(shown) :
            /\ FrameIndex(shown[k].steps) \in 0..7
            /\ FrameIndex(shown[k].steps) = 7 - steps_left
            /\ already_guessed = EmptyBag => FrameIndex(shown[k].steps) = 0)
    /\ [][MissStep =>
            /\ shown # <<>> /\ shown' # <<>>
            /\ FrameIndex(shown'[1].steps) = FrameIndex(shown[1].steps) + 1]_vars

\* C14 witness: the last frame, rendered when the round is lost
C14_Witness ==
    /\ pc = "lost"
    /\ shown # <<>>
    /\ FrameIndex(shown[1].steps) = 7

\* a line that is no delimiter
IsContentLine(line) == ~StartsWithDash(line)

RECURSIVE Flatten(_)
Flatten(fs) == IF fs = <<>> THEN <<>> ELSE Head(fs) \o Flatten(Tail(fs))

\* the places of the file where a run of content lines begins
RunStarts(f) ==
    {i \in 1..Len(f) : IsContentLine(f[i]) /\ (i = 1 \/ StartsWithDash(f[i - 1]))}

\* C15: for every sequence of lines, the frames loaded are in file order,
\* none is empty and none holds a line starting with '-'; leading, trailing
\* and consecutive delimiters make no frame, and every other line is in
\* exactly one frame (one frame per run of such lines).
C15_FramesLoaded ==
    rd = "done" =>
        /\ \A k \in 1..Len(frames) : frames[k] # <<>>
        /\ \A k \in 1..Len(frames) : \A j \in 1..Len(frames[k]) :
              ~StartsWithDash(frames[k][j])
        /\ Flatten(frames) = SelectSeq(file, IsContentLine)
        /\ Len(frames) = Cardinality(RunStarts(file))

\* C15 witness: a file with a leading delimiter, one content line and two
\* trailing delimiters has given one frame
C15_Witness ==
    /\ rd = "done"
    /\ file = << <<"-">>, <<"|">>, <<"-">>, <<"-", "-">> >>
    /\ frames = << << <<"|">> >> >>

\* the word line centred by the number of characters of the word
CentredLine(w) ==
    LET len == Len(w)
        left == (WordLineWidth - len) \div 2
        right == (WordLineWidth - len) - left
    IN  <<"#", " ">> \o Repeat(" ", left) \o w \o Repeat(" ", right)
            \o <<" ", "#">>

\* C16: for every word of length 0..25 handed to generate_frame, the word
\* line is "# ", floor((25-len)/2) spaces, the word, ceil((25-len)/2)
\* spaces and " #": the pads and the word fill 25 columns and the line is
\* 29 characters wide.
C16_WordLine ==
    \A k \in 1..Len(shown) :
        Len(shown[k].word) \in 0..WordLineWidth =>
            /\ FrameOk(shown[k].word)
            /\ WordFrame(shown[k].word) = CentredLine(shown[k].word)
            /\ Len(WordFrame(shown[k].word)) = WordLineWidth + 4

\* the letters of the history that are at no position of the word
Misses(wd, h) == {c \in BagToSet(h) : Positions(wd, c) = {}}

\* C17: in every state steps_left is 7 minus the number of distinct letters
\* of the guess history that do not occur in the word, case-insensitively:
\* a miss is counted once, a hit never.
C17_StepsCountMisses ==
    steps_left = STEPS - Cardinality(Misses(word, already_guessed))

\* C17 witness: a round in progress after one hit and two different misses
C17_Witness ==
    /\ pc = "play"
    /\ steps_left = STEPS - 2
    /\ Cardinality(BagToSet(already_guessed)) = 3
    /\ \E c \in BagToSet(already_guessed) : Positions(word, c) # {}

\* C18: in every state a position of the word that holds no space is
\* revealed iff the lower-case form of its letter is in the guess history.
C18_RevealMatchesHistory ==
    \A i \in 1..Len(word) :
        word[i].letter # " " =>
            (word[i].status <=> InHistory(already_guessed, word[i].letter))

\* C18 witness: the round of "a b" after the hit "a" and a miss: the first
\* letter is revealed, the last is not
C18_Witness ==
    /\ pc = "play"
    /\ FullWord(word) = <<"a", " ", "b">>
    /\ word[1].status /\ word[2].status /\ ~word[3].status
    /\ InHistory(already_guessed, "a")
    /\ steps_left = STEPS - 1

\* C19: a round that ended Won has steps_left >= 1 (and the whole word
\* revealed), a round that ended Lost has steps_left = 0 and a position
\* still hidden; in no state is the word complete with no attempt left, so
\* no guess both completes the word and exhausts the attempts.
C19_WonLostExclusive ==
    /\ pc = "won" => steps_left >= 1 /\ AllRevealed(word)
    /\ pc = "lost" => steps_left = 0 /\ ~AllRevealed(word)
    /\ steps_left = 0 => ~AllRevealed(word)

\* C19 witness: a round won by a hit on the last attempt
C19_Witness ==
    /\ pc = "won"
    /\ steps_left = 1
    /\ found
    /\ Len(word) >= MIN_WORD_LENGTH

\* the distinct letters of the word, case-insensitively
DistinctLetters(wd) == {ToLowercase(wd[i].letter) : i \in 1..Len(wd)}

\* the accepted guesses of the round: each adds one new letter to the history
AcceptedGuesses == Cardinality(BagToSet(already_guessed))

\* the word of the round is one that passes the validation of choose_word
ValidatedRound == pc \in {"play", "won", "lost"} /\ AcceptableWord(FullWord(word))

\* C20: with a word that passes validation and has d distinct letters, a
\* round takes at most d + 6 accepted guesses, a round still in progress
\* has taken fewer, and every accepted guess is counted; so if guesses of
\* letters not yet guessed keep arriving, a round in progress reaches Won
\* or Lost.
C20_RoundTerminates ==
    /\ [](ValidatedRound =>
            /\ AcceptedGuesses <= Cardinality(DistinctLetters(word)) + 6
            /\ pc = "play" =>
                  AcceptedGuesses < Cardinality(DistinctLetters(word)) + 6)
    /\ [][NewGuess =>
            Cardinality(BagToSet(already_guessed')) = AcceptedGuesses + 1]_vars
    /\ ([]<><<NewGuess>>_vars =>
            ((pc = "play" /\ ValidatedRound) ~> (pc \in {"won", "lost"})))

\* C20 witness: a round lost at the bound: a validated word with two
\* distinct letters, one of them found, after 1 + 7 accepted guesses
C20_Witness ==
    /\ pc = "lost"
    /\ ValidatedRound
    /\ Cardinality(DistinctLetters(word)) = 2
    /\ AcceptedGuesses = 8
====
